---- MODULE Spec2Model ----
(***************************************************************************)
(* The buffered, backpressure-aware writer of 05_Streams: the write stream *)
(* that fileHandle.createWriteStream() returns, driven by                  *)
(*   - an arbitrary producer (write / once("drain") / end in any order),   *)
(*   - the writeBuff producer of src/unnamed/part_000,                     *)
(*   - the write loop of 05_Streams/brenchMarking/README.md, which awaits  *)
(*     once("drain") after a false return.                                 *)
(* The stream is a Node.js Writable over a file descriptor; its operators  *)
(* carry the names of the Writable's own steps (writeOrBuffer, onwrite,    *)
(* clearBuffer, afterWrite, finishMaybe, errorBuffer).                     *)
(*                                                                         *)
(* Vocabulary of spec.md:  submit = stream.write, onDrained =              *)
(* stream.once("drain"), close() = stream.end(), its future = the "finish" *)
(* event, the output device's close = fileHandle.close(), pending size =   *)
(* stream.writableLength.                                                  *)
(*                                                                         *)
(* Beside the stream, small programs of the repository, each under a      *)
(* specification of its own:                                               *)
(*   - 05_Streams/main.js (MainSpec), the DatabasePool of                  *)
(*     EvenEmitter/README.md (PoolSpec), and the three copies of           *)
(*     04_FileSystem/fs_call_methods.js (CopySpec),                        *)
(*   - 05_Streams/brenchMarking/writeMany.js, the three write loops        *)
(*     (awaited, synchronous, callback) on one event loop (ManySpec),      *)
(*   - the corrected callback loop of brenchMarking/README.md (FixedSpec), *)
(*   - the FileUploader of EvenEmitter/README.md (UploaderSpec).           *)
(***************************************************************************)
EXTENDS Integers, Sequences, FiniteSets, TLC

\* ---------------------------------------------------------------- bounds
\* highWaterMark is drawn from 1..MaxHWM (the source's 16384, scaled down).
MaxHWM == 3
\* An arbitrary producer's chunks have 1..MaxChunkLen bytes.
MaxChunkLen == 2
\* An arbitrary producer calls write at most MaxWrites times.
MaxWrites == 3
\* ... registers at most MaxWaiters once("drain") callbacks,
MaxWaiters == 2
\* ... and calls end() at most MaxEnds times.
MaxEnds == 2
\* ... and makes at most MaxCalls calls in all.
MaxCalls == 5
\* part_000 writes the indices 0..Total-1 (the source's 1000000, scaled down).
Total == 12
\* part_000's highWaterMark is drawn from 1..MaxBuffHWM.
MaxBuffHWM == 12

\* writeMany.js writes the indices 0..ManyTotal-1 (the source's 1000000,
\* scaled down; the thread pool's four threads can reorder that many writes).
ManyTotal == 3
\* 05_Streams/main.js writes one byte and then OverLen bytes (the source's
\* 16384, scaled down); its highWaterMark is drawn from 1..MaxMainHWM.
OverLen == 4
MaxMainHWM == 8
\* DatabasePool: maxConnections is drawn from 1..MaxPool, and connect() is
\* called at most MaxConnects times.
MaxPool == 2
MaxConnects == 4
\* FileUploader.upload is called at most MaxUploads times.
MaxUploads == 2

VARIABLES
    stream,     \* the Writable's state, and the file behind it
    listeners,  \* the listeners registered on the stream
    i,          \* part_000: the next index to write
    pc,         \* position of the producer's top-level script
    hist,       \* history of the run (what was accepted, returned, fired)
    many,       \* writeMany.js: its three variants and the event loop
    fixed,      \* brenchMarking/README.md: the corrected callback variant
    uploader,   \* EvenEmitter/README.md: the FileUploader and its uploads
    pool,       \* EvenEmitter/README.md: the DatabasePool and its clients
    copy        \* 04_FileSystem/fs_call_methods.js: the three copies

vars == <<stream, listeners, i, pc, hist, many, fixed, uploader, pool, copy>>

\* ------------------------------------------------------------- sequences
RECURSIVE SumLen(_)
\* Total number of bytes of a sequence of chunks.
SumLen(q) == IF q = <<>> THEN 0 ELSE Len(Head(q)) + SumLen(Tail(q))

RECURSIVE Concat(_)
\* The bytes of a sequence of chunks, in order.
Concat(q) == IF q = <<>> THEN <<>> ELSE Head(q) \o Concat(Tail(q))

IsPrefix(a, b) == Len(a) <= Len(b) /\ SubSeq(b, 1, Len(a)) = a

\* ------------------------------------------------------------ the stream
\* fileHandle.createWriteStream(): nothing buffered, nothing written, not
\* yet constructed (the Writable constructs itself on the next tick).
NewStream(hwm) ==
    [ highWaterMark |-> hwm,
      length        |-> 0,        \* writableLength
      buffered      |-> <<>>,     \* chunks not yet handed to the file
      inflight      |-> <<>>,     \* chunks of the write in flight (writing)
      written       |-> 0,        \* bytes of it the file has taken so far
      constructed   |-> FALSE,
      needDrain     |-> FALSE,
      ending        |-> FALSE,    \* end() was called
      finished      |-> FALSE,    \* "finish" was emitted
      destroyed     |-> FALSE,
      errored       |-> "none",
      finishTick    |-> FALSE,    \* a process.nextTick(finish) is queued
      errorTick     |-> FALSE,    \* a process.nextTick(errorBuffer) is queued
      ret           |-> TRUE,     \* what the last write() returned
      writeErr      |-> "none",   \* the error the last write() reported
      file          |-> <<>> ]    \* the bytes the file has received

Writing(s) == s.inflight # <<>>

\* The bytes of the write in flight that the file has still to take.
Remainder(s) == SubSeq(Concat(s.inflight), s.written + 1, SumLen(s.inflight))

\* needFinish without the test that nothing is left to write.
NeedFinishEarly(s) ==
    /\ s.ending /\ ~s.destroyed /\ s.constructed
    /\ s.errored = "none" /\ ~s.finished

\* needFinish(state)
NeedFinish(s) ==
    /\ s.ending /\ ~s.destroyed /\ s.constructed
    /\ s.length = 0 /\ s.errored = "none" /\ s.buffered = <<>>
    /\ ~s.finished /\ ~Writing(s)

\* errorBuffer(state): the chunks still buffered are given up; their callbacks
\* get the error and their bytes leave writableLength.
ErrorBuffer(s) ==
    IF Writing(s) THEN s
    ELSE [s EXCEPT !.length = @ - SumLen(s.buffered), !.buffered = <<>>]

\* destroy(err) that records the error and leaves the stream open.
DestroyErrOnly(s, err) ==
    IF s.destroyed THEN s
    ELSE [s EXCEPT !.errored = IF @ = "none" THEN err ELSE @]

\* stream.destroy(err), reached through errorOrDestroy.
Destroy(s, err) ==
    IF s.destroyed THEN s
    ELSE [s EXCEPT !.destroyed = TRUE,
                   !.errored = IF @ = "none" THEN err ELSE @,
                   !.errorTick = (s.buffered # <<>>)]

\* The write() return rule with the comparison taken before the chunk is counted.
RetBeforeAppend(s, len) == s.length < s.highWaterMark

\* The write() return rule with the buffer allowed to sit at the mark.
RetAtMark(s, len) == s.length + len <= s.highWaterMark

\* writeOrBuffer: const ret = state.length < state.highWaterMark, taken after
\* state.length += len.
WriteRet(s, len) == s.length + len < s.highWaterMark

\* writeOrBuffer turning down the chunk it returns false for.
WriteOrBufferDropOnFalse(s, chunk) ==
    LET ret  == WriteRet(s, Len(chunk))
        busy == Writing(s) \/ s.errored # "none" \/ ~s.constructed
    IN  IF ret
        THEN [s EXCEPT !.length    = @ + Len(chunk),
                       !.buffered  = IF busy THEN Append(@, chunk) ELSE @,
                       !.inflight  = IF busy THEN @ ELSE <<chunk>>,
                       !.ret       = s.errored = "none" /\ ~s.destroyed,
                       !.writeErr  = "none"]
        ELSE [s EXCEPT !.needDrain = TRUE, !.ret = FALSE, !.writeErr = "none"]

\* writeOrBuffer handing every chunk to the file at once, without the test
\* for a write in flight.
WriteOrBufferNoWait(s, chunk) ==
    LET ret  == WriteRet(s, Len(chunk))
        busy == s.errored # "none" \/ ~s.constructed
    IN  [s EXCEPT !.length    = @ + Len(chunk),
                  !.needDrain = IF ret THEN @ ELSE TRUE,
                  !.buffered  = IF busy THEN Append(@, chunk) ELSE @,
                  !.inflight  = IF busy THEN @ ELSE <<chunk>>,
                  !.written   = IF busy THEN @ ELSE 0,
                  !.ret       = ret /\ s.errored = "none" /\ ~s.destroyed,
                  !.writeErr  = "none"]

\* writeOrBuffer(stream, state, chunk): count the chunk, decide the return
\* value, and either hand the chunk to the file or buffer it.
WriteOrBuffer(s, chunk) ==
    LET ret  == WriteRet(s, Len(chunk))
        busy == Writing(s) \/ s.errored # "none" \/ ~s.constructed
    IN  [s EXCEPT !.length    = @ + Len(chunk),
                  !.needDrain = IF ret THEN @ ELSE TRUE,
                  !.buffered  = IF busy THEN Append(@, chunk) ELSE @,
                  !.inflight  = IF busy THEN @ ELSE <<chunk>>,
                  !.ret       = ret /\ s.errored = "none" /\ ~s.destroyed,
                  !.writeErr  = "none"]

\* stream.write without the test for an ended or destroyed stream.
WriteUnchecked(s, chunk) == WriteOrBuffer(s, chunk)

\* stream.write that takes a chunk after end() and reopens the stream for it.
WriteReopens(s, chunk) ==
    IF s.destroyed
    THEN [s EXCEPT !.ret = FALSE, !.writeErr = "ERR_STREAM_DESTROYED"]
    ELSE WriteOrBuffer([s EXCEPT !.ending = FALSE, !.finishTick = FALSE], chunk)

\* stream.write(chunk): after end() the chunk is refused with
\* ERR_STREAM_WRITE_AFTER_END (ERR_STREAM_DESTROYED on a destroyed stream),
\* write returns false and the stream is destroyed with that error.
Write(s, chunk) ==
    IF s.ending
    THEN [Destroy(s, "ERR_STREAM_WRITE_AFTER_END")
             EXCEPT !.ret = FALSE, !.writeErr = "ERR_STREAM_WRITE_AFTER_END"]
    ELSE IF s.destroyed
    THEN [s EXCEPT !.ret = FALSE, !.writeErr = "ERR_STREAM_DESTROYED"]
    ELSE WriteOrBuffer(s, chunk)

\* Does write() accept a chunk in state s?
Accepted(s) == ~s.ending /\ ~s.destroyed

\* finishMaybe(stream, state, sync = true) that queues nothing.
FinishMaybeSyncNever(s) == s

\* finishMaybe(stream, state, sync = true), as end() calls it.
FinishMaybeSync(s) ==
    IF NeedFinish(s) /\ ~s.finishTick THEN [s EXCEPT !.finishTick = TRUE] ELSE s

\* stream.end() without the test for a stream that is already ending.
EndAgain(s) == [s EXCEPT !.ending = TRUE, !.finishTick = (s.length = 0)]

\* stream.end() without a chunk. A second end() changes nothing.
End(s) ==
    IF s.errored = "none" /\ ~s.ending
    THEN FinishMaybeSync([s EXCEPT !.ending = TRUE])
    ELSE s

\* stream.end(chunk): write the chunk, then end.
EndWith(s, chunk) ==
    IF Accepted(s) THEN End(Write(s, chunk)) ELSE Write(s, chunk)

\* clearBuffer that takes the chunk buffered last, and only that one.
ClearBufferLastFirst(s) ==
    IF s.destroyed \/ ~s.constructed \/ Writing(s) \/ s.buffered = <<>> THEN s
    ELSE [s EXCEPT !.inflight = <<s.buffered[Len(s.buffered)]>>,
                   !.buffered = SubSeq(@, 1, Len(@) - 1)]

\* clearBuffer(stream, state): everything buffered goes to the file as the
\* next write (one writev for several chunks).
ClearBuffer(s) ==
    IF s.destroyed \/ ~s.constructed \/ Writing(s) \/ s.buffered = <<>> THEN s
    ELSE [s EXCEPT !.inflight = s.buffered, !.buffered = <<>>]

\* onwrite that leaves writableLength as it was.
OnWriteNoCount(s) ==
    ClearBuffer([s EXCEPT !.file = @ \o Remainder(s), !.inflight = <<>>,
                          !.written = 0])

\* onwrite(stream, null): the write in flight is confirmed. Its bytes are in
\* the file, they leave writableLength, and the next write is started.
OnWrite(s) ==
    LET done == [s EXCEPT !.file = @ \o Remainder(s),
                          !.length = @ - SumLen(s.inflight),
                          !.inflight = <<>>,
                          !.written = 0]
    IN  ClearBuffer(done)

\* "drain" as soon as writableLength is back at or below highWaterMark.
DrainDueAtMark(s) ==
    ~s.ending /\ ~s.destroyed /\ s.length <= s.highWaterMark /\ s.needDrain

\* afterWrite's test for "drain" without the test for an ending stream.
DrainDueWhileEnding(s) == ~s.destroyed /\ s.length = 0 /\ s.needDrain

\* afterWrite: is "drain" due?
DrainDue(s) == ~s.ending /\ ~s.destroyed /\ s.length = 0 /\ s.needDrain

\* onwrite(stream, er) that drops the failed write and goes on as after a
\* confirmed one.
OnWriteErrorSwallow(s) ==
    ClearBuffer([s EXCEPT !.length = @ - SumLen(s.inflight),
                          !.inflight = <<>>,
                          !.written = 0])

\* onwrite(stream, er) that records the error and goes on with the buffer.
OnWriteErrorGoOn(s) ==
    ClearBuffer([s EXCEPT !.length = @ - SumLen(s.inflight),
                          !.inflight = <<>>,
                          !.written = 0,
                          !.errored = IF @ = "none" THEN "EIO" ELSE @])

\* onwrite(stream, er): the write in flight failed. Its bytes leave
\* writableLength although they were not written, the buffered chunks are
\* given up and the stream is destroyed with the error.
OnWriteError(s) ==
    LET failed == [s EXCEPT !.length = @ - SumLen(s.inflight),
                            !.inflight = <<>>,
                            !.written = 0,
                            !.errored = IF @ = "none" THEN "EIO" ELSE @]
    IN  [Destroy(ErrorBuffer(failed), "EIO") EXCEPT !.errorTick = FALSE]

\* writeAll that takes a partial fs.write for the whole write.
WriteAllDone(s, k) ==
    ClearBuffer([s EXCEPT !.file = @ \o SubSeq(Remainder(s), 1, k),
                          !.length = @ - SumLen(s.inflight),
                          !.inflight = <<>>,
                          !.written = 0])

\* writeAll / writevAll: fs.write took only k bytes of what was handed to it.
\* The rest is handed to fs.write again, at the position behind them; on a
\* destroyed stream the rest is dropped and the write ends with an error.
WriteAll(s, k) ==
    LET took == [s EXCEPT !.file = @ \o SubSeq(Remainder(s), 1, k),
                          !.written = @ + k]
    IN  IF s.destroyed THEN OnWriteError(took) ELSE took

\* The state of spec.md's sink.
SinkState(s) ==
    IF s.finished \/ s.destroyed THEN "Closed"
    ELSE IF s.ending THEN "Closing"
    ELSE IF s.needDrain THEN "Draining"
    ELSE "Open"

\* ------------------------------------------------------------ the chunks
RECURSIVE Digits(_)
\* The decimal digits of k, as character codes.
Digits(k) == IF k < 10 THEN <<48 + k>> ELSE Digits(k \div 10) \o <<48 + (k % 10)>>

\* Buffer.from(` ${k} `, "utf-8")
Buff(k) == <<32>> \o Digits(k) \o <<32>>

\* The chunk of an arbitrary producer's n-th write call, len bytes long.
Chunk(n, len) == [j \in 1..len |-> n]

\* --------------------------------------------------------------- history
NewHist ==
    [ accepted  |-> <<>>,    \* the chunks write() accepted, in call order
      sawFalse  |-> FALSE,   \* write() has returned false for one of them
      refused   |-> 0,       \* calls of write() that were refused
      paused    |-> FALSE,   \* write() returned false and no "drain" since
      wasPaused |-> FALSE,   \* paused, when "drain" was last emitted
      ignored   |-> FALSE,   \* write() was called while paused
      nwaiters  |-> 0,       \* once("drain") registrations
      fired     |-> <<>>,    \* the once("drain") callbacks that ran, in order
      ends      |-> 0,       \* calls of end()
      fdCloses  |-> 0,       \* calls of fileHandle.close()
      fdClose   |-> "none" ] \* how fileHandle.close() ended: "ok", "failed"

\* Calls of write() so far.
NWrites(h) == Len(h.accepted) + h.refused

\* Calls of write(), once("drain") and end() so far.
NCalls(h) == NWrites(h) + h.nwaiters + h.ends

\* Size of the chunk accepted last.
LastLen(h) == IF h.accepted = <<>> THEN 0 ELSE Len(h.accepted[Len(h.accepted)])

\* The history after a write(chunk) call that led from s to s1.
NoteWrite(h, s, s1, chunk) ==
    [h EXCEPT !.accepted = IF Accepted(s) THEN Append(@, chunk) ELSE @,
              !.sawFalse = @ \/ (Accepted(s) /\ ~s1.ret),
              !.refused  = IF Accepted(s) THEN @ ELSE @ + 1,
              !.ignored  = @ \/ h.paused,
              !.paused   = IF Accepted(s) THEN @ \/ ~s1.ret ELSE @]

\* ------------------------------------------------------ writeMany.js: state
\* The script before it runs. An open or a write is "queued" in the thread
\* pool until the pool has carried it out; its callback or continuation
\* runs later, when no other JavaScript is running.
NewMany ==
    [ script   |-> FALSE,     \* the top-level script has run
      js       |-> "idle",    \* "sync" while writeManySync's loop is running,
                              \* "cb" while writeManyCallBack's loop is
      crashed  |-> FALSE,     \* the process died of an uncaught error
      pawait   |-> "none",    \* writeManyPromise is suspended at: "open", "write"
      psettled |-> "pending", \* the awaited promise: "pending", "ok", "failed"
      pindex   |-> 0,         \* writeManyPromise's index
      pqueued  |-> {},        \* its writes queued in the thread pool
      pissued  |-> <<>>,      \* the indices it has issued a write for, in order
      pdone    |-> <<>>,      \* the indices written to textPromise.txt, in order
      sopen    |-> "none",    \* writeManySync's open: "queued", "ready" (it
                              \* succeeded), "failed", "done" (callback ran)
      sindex   |-> 0,         \* its index
      sdone    |-> <<>>,      \* the indices written to testSync.txt, in order
      copen    |-> "none",    \* writeManyCallBack's open
      cindex   |-> 0,         \* its index: the writes it has issued
      cqueued  |-> {},        \* its writes queued in the thread pool
      cexec    |-> <<>>,      \* the indices written to testCallBack.txt, in order
      cfailed  |-> 0,         \* its writes that failed in the thread pool
      ccalled  |-> 0,         \* write callbacks that have run
      timeEnd  |-> [p |-> -1, s |-> -1, c |-> -1] ]
                              \* console.timeEnd(variant) ran when so many of
                              \* the variant's writes were done; -1: not yet

\* ------------------- brenchMarking/README.md: the corrected callback variant
\* The state of the README's "CORRECT - Wait for all writes" listing.
NewFixed ==
    [ script    |-> FALSE,   \* the async function has run
      crashed   |-> FALSE,   \* the process died of an uncaught error
      open      |-> "none",  \* the open: "queued", "ready", "failed", "done"
      looping   |-> FALSE,   \* the open callback's for loop is running
      index     |-> 0,       \* the loop's index: the writes issued
      queued    |-> {},      \* the writes queued in the thread pool
      file      |-> <<>>,    \* the indices written to test.txt, in order
      ready     |-> <<>>,    \* the writes the thread pool is done with, in
                             \* the order it finished them, callback due
      called    |-> <<>>,    \* the indices whose callback has run, in order
      completed |-> 0,       \* let completed
      timeEnds  |-> 0,       \* console.timeEnd("writeManyCallBack") calls
      timeEndAt |-> -1 ]     \* callbacks that had run at the first of them

\* --------------------------------- EvenEmitter/README.md: the FileUploader
\* The uploader: one entry per upload() call (the call's closure: its
\* fileName, its progress, whether its interval is set) and the events
\* emitted so far, each with the call it belongs to.
NewUploader == [calls |-> <<>>, log |-> <<>>]

\* --------------------------------- EvenEmitter/README.md: the DatabasePool
\* The pool before it is constructed (max is set by the constructor), with
\* what its clients hold: a connection is the object a connect() call was
\* answered with, told apart by the call, with the id it was given.
NewPool ==
    [ max    |-> 0,       \* this.maxConnections
      active |-> 0,       \* this.activeConnections
      queue  |-> <<>>,    \* this.queue: the connect() calls that wait
      calls  |-> 0,       \* connect() calls so far
      held   |-> {},      \* the connections held: [call, id]
      served |-> <<>>,    \* the waiting calls answered by release(), in order
      waited |-> <<>> ]   \* the calls that had to wait, in call order

\* ------------------------------------ 04_FileSystem/fs_call_methods.js
\* The module before it runs: the three copies ("none", "queued" in the
\* thread pool or, for the synchronous one, "running", then "ok" or
\* "failed"), and what was logged.
NewCopy ==
    [ script   |-> "none",  \* the top-level code: "none", "sync" (inside
                            \* copyFileSync), "done"
      promise  |-> "none",
      callback |-> "none",
      sync     |-> "none",
      crashed  |-> FALSE,   \* the process died of an uncaught error
      started  |-> <<>>,    \* the copies in the order they were started
      log      |-> <<>> ]   \* the outcome messages: [who, ok], in order

\* A context is what a handler may read and change.
Ctx(s, k, p, h) == [stream |-> s, i |-> k, pc |-> p, hist |-> h]

RECURSIVE writeBuffEndEarly(_)
\* writeBuff with the test for the last index off by one (i >= 999999).
writeBuffEndEarly(c) ==
    IF c.i < Total
    THEN LET buff == Buff(c.i)
             k    == c.i + 1
         IN  IF k >= Total - 1
             THEN Ctx(EndWith(c.stream, buff), k, c.pc,
                      [NoteWrite(c.hist, c.stream, EndWith(c.stream, buff), buff)
                          EXCEPT !.ends = @ + 1])
             ELSE LET s1 == Write(c.stream, buff)
                      c1 == Ctx(s1, k, c.pc, NoteWrite(c.hist, c.stream, s1, buff))
                  IN  IF ~s1.ret THEN c1 ELSE writeBuffEndEarly(c1)
    ELSE c

\* ------------------------------------------------- part_000: the producer
RECURSIVE writeBuffRetry(_)
\* writeBuff with i++ placed after the write, behind the break.
writeBuffRetry(c) ==
    IF c.i < Total
    THEN LET buff == Buff(c.i)
             k    == c.i + 1
         IN  IF k > Total - 1
             THEN Ctx(EndWith(c.stream, buff), k, c.pc,
                      [NoteWrite(c.hist, c.stream, EndWith(c.stream, buff), buff)
                          EXCEPT !.ends = @ + 1])
             ELSE LET s1 == Write(c.stream, buff)
                      h1 == NoteWrite(c.hist, c.stream, s1, buff)
                  IN  IF ~s1.ret THEN Ctx(s1, c.i, c.pc, h1)
                      ELSE writeBuffRetry(Ctx(s1, k, c.pc, h1))
    ELSE c

RECURSIVE writeBuffNoBreak(_)
\* writeBuff without the break on a false write.
writeBuffNoBreak(c) ==
    IF c.i < Total
    THEN LET buff == Buff(c.i)
             k    == c.i + 1
         IN  IF k > Total - 1
             THEN Ctx(EndWith(c.stream, buff), k, c.pc,
                      [NoteWrite(c.hist, c.stream, EndWith(c.stream, buff), buff)
                          EXCEPT !.ends = @ + 1])
             ELSE LET s1 == Write(c.stream, buff)
                  IN  writeBuffNoBreak(
                          Ctx(s1, k, c.pc, NoteWrite(c.hist, c.stream, s1, buff)))
    ELSE c

RECURSIVE writeBuff(_)
\* part_000's writeBuff: write the indices from i on; the last one goes to
\* stream.end; stop when write returns false.
writeBuff(c) ==
    IF c.i < Total
    THEN LET buff == Buff(c.i)
             k    == c.i + 1
         IN  IF k > Total - 1
             THEN Ctx(EndWith(c.stream, buff), k, c.pc,
                      [NoteWrite(c.hist, c.stream, EndWith(c.stream, buff), buff)
                          EXCEPT !.ends = @ + 1])
             ELSE LET s1 == Write(c.stream, buff)
                      c1 == Ctx(s1, k, c.pc, NoteWrite(c.hist, c.stream, s1, buff))
                  IN  IF ~s1.ret THEN c1 ELSE writeBuff(c1)
    ELSE c

\* ------------------------------------------- README: the stream loop
RECURSIVE streamLoop(_)
\* for (index...) { canContinue = stream.write(` ${index} `);
\*                  if (!canContinue) await once("drain") }  stream.end();
\* run from index i up to the next await or to the end.
streamLoop(c) ==
    IF c.i < Total
    THEN LET chunk == Buff(c.i)
             s1    == Write(c.stream, chunk)
             c1    == Ctx(s1, c.i + 1, c.pc, NoteWrite(c.hist, c.stream, s1, chunk))
         IN  IF ~s1.ret THEN [c1 EXCEPT !.pc = "await"] ELSE streamLoop(c1)
    ELSE [c EXCEPT !.stream = End(@), !.hist.ends = @ + 1, !.pc = "ended"]

\* ------------------------------------------------------------- listeners
\* A "drain" listener: once("drain", cb) of an arbitrary producer (fn = "note",
\* the callback only records that it ran), the README loop's
\* once("drain", resolve), or part_000's on("drain") handler. over: has
\* writableLength been above highWaterMark since the registration?
OnceNote(id, over) == [id |-> id, once |-> TRUE,  fn |-> "note",      over |-> over]
OnceResume         == [id |-> 0,  once |-> TRUE,  fn |-> "resume",    over |-> FALSE]
\* part_000's handler registered with once("drain") instead of on("drain").
OnBuffOnce         == [id |-> 0,  once |-> TRUE,  fn |-> "writeBuff", over |-> FALSE]

OnBuff             == [id |-> 0,  once |-> FALSE, fn |-> "writeBuff", over |-> FALSE]
\* 05_Streams/main.js: the on("drain") handler of lines 17-21.
OnMore             == [id |-> 0,  once |-> FALSE, fn |-> "writeMore", over |-> FALSE]

\* 05_Streams/main.js, lines 17-21: the handler writes one more byte.
writeMore(c) ==
    LET chunk == <<66>>
        s1    == Write(c.stream, chunk)
    IN  [c EXCEPT !.stream = s1,
                  !.hist = NoteWrite(c.hist, c.stream, s1, chunk)]

\* One "drain" listener runs.
RunListener(c, l) ==
    CASE l.fn = "writeBuff" -> writeBuff(c)
      [] l.fn = "writeMore" -> writeMore(c)
      [] l.fn = "resume"    -> [c EXCEPT !.pc = "loop"]
      [] OTHER ->
           [c EXCEPT !.hist.fired =
               Append(@, [id |-> l.id, over |-> l.over, len |-> c.stream.length,
                          wasPaused |-> c.hist.wasPaused,
                          state |-> SinkState(c.stream)])]

RECURSIVE RunListeners(_, _)
\* The listeners run one after the other, in registration order.
RunListeners(c, ls) ==
    IF ls = <<>> THEN c ELSE RunListeners(RunListener(c, Head(ls)), Tail(ls))

\* Once-listeners stay registered after an emit.
KeptAll(ls) == ls

\* The listeners that stay registered after an emit: once-listeners leave.
Kept(ls) == SelectSeq(ls, LAMBDA l : ~l.once)

\* The emit of "drain" with needDrain reset only after the listeners ran.
EmitDrainFlagAfter(c, ls) ==
    [RunListeners([c EXCEPT !.hist.wasPaused = c.hist.paused,
                            !.hist.paused = FALSE], ls)
        EXCEPT !.stream.needDrain = FALSE]

\* afterWrite's emit of "drain": needDrain is reset and the listeners run
\* inside the completion of the write.
EmitDrain(c, ls) ==
    RunListeners([c EXCEPT !.stream.needDrain = FALSE,
                           !.hist.wasPaused = c.hist.paused,
                           !.hist.paused = FALSE], ls)

\* finish(stream, state): "finish" is emitted, the handler of part_000 line 28
\* closes the file handle, and the stream destroys itself (autoDestroy).
Finish(c, onFinish) ==
    [c EXCEPT !.stream.finished = TRUE, !.stream.finishTick = FALSE,
              !.stream.destroyed = TRUE,
              !.hist.fdCloses = IF onFinish THEN @ + 1 ELSE @]

\* finishMaybe that finishes as soon as the stream is ending.
FinishMaybeEager(c, onFinish) ==
    IF c.stream.ending /\ ~c.stream.finished /\ ~c.stream.destroyed
    THEN Finish(c, onFinish) ELSE c

\* finishMaybe(stream, state) outside end(): finish at once when nothing is
\* left and no finish is queued.
FinishMaybe(c, onFinish) ==
    IF NeedFinish(c.stream) /\ ~c.stream.finishTick THEN Finish(c, onFinish) ELSE c

\* afterWrite without its finishMaybe.
AfterWriteNoFinish(c, ls) ==
    LET c1 == IF DrainDue(c.stream) THEN EmitDrain(c, ls.drain) ELSE c
    IN  IF c1.stream.destroyed
        THEN [c1 EXCEPT !.stream = ErrorBuffer(@)] ELSE c1

\* afterWrite(stream, state): "drain" if due, the given-up chunks of a
\* destroyed stream, then finishMaybe.
AfterWrite(c, ls) ==
    LET c1 == IF DrainDue(c.stream) THEN EmitDrain(c, ls.drain) ELSE c
        c2 == IF c1.stream.destroyed
              THEN [c1 EXCEPT !.stream = ErrorBuffer(@)] ELSE c1
    IN  FinishMaybe(c2, ls.finish)

Here == Ctx(stream, i, pc, hist)

\* The listeners, each marked when writableLength is above highWaterMark.
Marked(ls, s) ==
    [k \in 1..Len(ls) |-> [ls[k] EXCEPT !.over = @ \/ s.length > s.highWaterMark]]

\* The step leads to context c with the listeners ls.
Becomes(c, ls) ==
    \E v \in {c} :
        /\ stream' = v.stream
        /\ i' = v.i
        /\ pc' = v.pc
        /\ hist' = v.hist
        /\ listeners' = [ls EXCEPT !.drain = Marked(@, v.stream)]
        /\ UNCHANGED <<many, fixed, uploader, pool, copy>>

\* --------------------------------------------------------------- actions
\* The Writable's construction completes on a tick after its creation, so
\* after the script that created the stream has run up to its first await or
\* to its end: what was buffered meanwhile is written.
Construct ==
    /\ ~stream.constructed
    /\ pc \notin {"start", "loop", "main"}
    /\ LET s1 == ClearBuffer([stream EXCEPT !.constructed = TRUE])
       IN  Becomes(FinishMaybe([Here EXCEPT !.stream = s1], listeners.finish),
                   listeners)

\* An arbitrary producer calls stream.write(chunk).
Submit ==
    /\ pc = "any"
    /\ NWrites(hist) < MaxWrites /\ NCalls(hist) < MaxCalls
    /\ \E len \in 1..MaxChunkLen :
         LET chunk == Chunk(NWrites(hist) + 1, len)
             s1    == Write(stream, chunk)
         IN  Becomes([Here EXCEPT !.stream = s1,
                                  !.hist = NoteWrite(hist, stream, s1, chunk)],
                     listeners)

\* An arbitrary producer calls stream.once("drain", cb).
OnDrained ==
    /\ pc = "any"
    /\ hist.nwaiters < MaxWaiters /\ NCalls(hist) < MaxCalls
    /\ Becomes([Here EXCEPT !.hist.nwaiters = @ + 1],
               [listeners EXCEPT !.drain =
                   Append(@, OnceNote(hist.nwaiters + 1, FALSE))])

\* An arbitrary producer calls stream.end().
Close ==
    /\ pc = "any"
    /\ hist.ends < MaxEnds /\ NCalls(hist) < MaxCalls
    /\ Becomes([Here EXCEPT !.stream = End(stream), !.hist.ends = @ + 1],
               listeners)

\* The file confirms the write in flight.
WriteDone ==
    /\ Writing(stream)
    /\ Becomes(AfterWrite([Here EXCEPT !.stream = OnWrite(stream)], listeners),
               IF DrainDue(OnWrite(stream))
               THEN [listeners EXCEPT !.drain = Kept(@)] ELSE listeners)

\* The file fails the write in flight.
WriteFail ==
    /\ Writing(stream)
    /\ ~stream.destroyed
    /\ Becomes([Here EXCEPT !.stream = OnWriteError(stream)],
               listeners)

\* fs.write took only a part of the write in flight.
WritePartial ==
    /\ Writing(stream)
    /\ \E k \in 1..(Len(Remainder(stream)) - 1) :
         Becomes([Here EXCEPT !.stream = WriteAll(stream, k)], listeners)

\* The finish queued by end() runs.
FinishTick ==
    /\ stream.finishTick
    /\ Becomes(IF NeedFinish(stream) THEN Finish(Here, listeners.finish)
               ELSE [Here EXCEPT !.stream.finishTick = FALSE],
               listeners)

\* The errorBuffer queued by destroy() runs.
ErrorBufferTick ==
    /\ stream.errorTick
    /\ Becomes([Here EXCEPT !.stream = [ErrorBuffer(stream) EXCEPT !.errorTick = FALSE]],
               listeners)

\* The promise of the "finish" handler's fileHandle.close() settles.
FdClose ==
    /\ hist.fdCloses > 0
    /\ hist.fdClose = "none"
    /\ \E how \in {"ok", "failed"} :
         Becomes([Here EXCEPT !.hist.fdClose = how], listeners)

\* part_000, lines 22-31: writeBuff(), then the "drain" and "finish" handlers
\* are registered.
BuffMain ==
    /\ pc = "start"
    /\ Becomes([writeBuff(Here) EXCEPT !.pc = "registered"],
               [drain |-> Append(listeners.drain, OnBuff), finish |-> TRUE])

\* README: the loop runs up to its next await (where it registers
\* once("drain", resolve)) or to stream.end().
StreamLoop ==
    /\ pc = "loop"
    /\ LET c1 == streamLoop(Here)
       IN  Becomes(c1,
                   IF c1.pc = "await"
                   THEN [listeners EXCEPT !.drain = Append(@, OnceResume)]
                   ELSE listeners)

\* ------------------------------------------------------- specification
\* The stream of fileHandle.createWriteStream() under one of three producers:
\* an arbitrary one (pc = "any"; "finish" closes the file handle, as in
\* part_000), part_000 (pc = "start") and the README's loop (pc = "loop").
Init ==
    /\ \/ /\ pc = "any"
          /\ \E hwm \in 1..MaxHWM : stream = NewStream(hwm)
          /\ listeners = [drain |-> <<>>, finish |-> TRUE]
       \/ /\ pc \in {"start", "loop"}
          /\ \E hwm \in 1..MaxBuffHWM : stream = NewStream(hwm)
          /\ listeners = [drain |-> <<>>, finish |-> FALSE]
    /\ i = 0
    /\ hist = NewHist
    /\ many = NewMany
    /\ fixed = NewFixed
    /\ uploader = NewUploader
    /\ pool = NewPool
    /\ copy = NewCopy

Next ==
    \/ Construct
    \/ Submit
    \/ OnDrained
    \/ Close
    \/ WriteDone
    \/ WriteFail
    \/ WritePartial
    \/ FdClose
    \/ FinishTick
    \/ ErrorBufferTick
    \/ BuffMain
    \/ StreamLoop

Spec == Init /\ [][Next]_vars

\* The same under the event loop's scheduling: a queued tick runs, the
\* construction completes, and the file answers every write handed to it
\* (by confirming it, by taking a part of it, or by failing it).
FairSpec ==
    /\ Spec
    /\ WF_vars(Construct)
    /\ WF_vars(FinishTick)
    /\ WF_vars(ErrorBufferTick)
    /\ WF_vars(WriteFail \/ WritePartial \/ WriteDone)

\* ================================================================ claims
\* What part_000 means to write: ' 0 ', ' 1 ', ..., each once, in order.
AllBuffs == [k \in 1..Total |-> Buff(k - 1)]

Range(q) == {q[k] : k \in 1..Len(q)}

\* Steps of an arbitrary producer's run, told by what they leave in the history.
WriteStep  == pc = "any" /\ NWrites(hist') = NWrites(hist) + 1
AcceptStep == pc = "any" /\ Len(hist'.accepted) = Len(hist.accepted) + 1
RefuseStep == pc = "any" /\ hist'.refused = hist.refused + 1
EndStep    == pc = "any" /\ hist'.ends = hist.ends + 1
OnceStep   == pc = "any" /\ hist'.nwaiters = hist.nwaiters + 1
PartStep   == pc = "any" /\ stream'.written > stream.written
DoneStep   == pc = "any" /\ stream'.file # stream.file /\ ~PartStep
FailStep   == pc = "any" /\ stream.errored = "none" /\ stream'.errored = "EIO"
GiveUpStep == pc = "any" /\ stream.errorTick /\ ~stream'.errorTick

\* C1: once "finish" has fired (close()'s future has resolved), the bytes the
\* file received are the accepted chunks, concatenated in submission order,
\* none missing and none twice; for part_000 and the README loop these are
\* ' 0 ', ' 1 ', ..., ' Total-1 '.
CloseDeliversAll ==
    stream.finished =>
        /\ stream.file = Concat(hist.accepted)
        /\ pc # "any" => stream.file = Concat(AllBuffs)

\* C1 witness: part_000 has finished after at least one "drain", and the file
\* handle is closed.
CloseDeliversAllReached ==
    /\ pc = "registered" /\ stream.finished /\ hist.fdCloses = 1
    /\ hist.wasPaused /\ Len(stream.file) > Total

\* C2 as stated: an accepted write returns true exactly when writableLength
\* after the append is <= highWaterMark.
SubmitTrueUpToMark ==
    [][ AcceptStep
          => (stream'.ret <=> stream'.length <= stream.highWaterMark) ]_vars

\* C2, amended: an accepted write returns true exactly when writableLength
\* after the append is < highWaterMark; so while the sizes of all accepted
\* chunks add up to less than highWaterMark, every write has returned true.
SubmitTrueBelowMark ==
    /\ [][ AcceptStep
             => (stream'.ret <=> stream'.length < stream.highWaterMark) ]_vars
    /\ [](SumLen(hist.accepted) < stream.highWaterMark => ~hist.sawFalse)

\* C2 witness: two writes were accepted, their sizes add up to
\* highWaterMark - 1, a flush has completed, and both returned true.
SubmitTrueBelowMarkReached ==
    /\ pc = "any" /\ Len(hist.accepted) = 2
    /\ SumLen(hist.accepted) = stream.highWaterMark - 1
    /\ stream.file # <<>>
    /\ ~hist.sawFalse /\ stream.ret

\* C3: the first write that brings writableLength above highWaterMark returns
\* false, and so does every later write made while writableLength is still
\* above it, that is until a completed flush has brought it back to
\* <= highWaterMark; none returns true in between.
BackpressureUntilDrain ==
    [][ (AcceptStep
           /\ (stream.length > stream.highWaterMark
                 \/ stream'.length > stream.highWaterMark))
        => (~stream'.ret /\ hist'.sawFalse) ]_vars

\* C3 witness: a write made while writableLength was already above
\* highWaterMark, after a completed flush, has returned false.
BackpressureUntilDrainReached ==
    /\ pc = "any" /\ Len(hist.accepted) >= 2
    /\ stream.length - LastLen(hist) > stream.highWaterMark
    /\ stream.file # <<>>
    /\ ~stream.ret

\* C4: under part_000's writeBuff and under the README's loop, which stop at
\* a false write and go on at "drain", writableLength never exceeds
\* highWaterMark plus the size of one chunk (the one written last).
PausingProducerBounded ==
    pc # "any" => stream.length <= stream.highWaterMark + LastLen(hist)

\* C4 witness: the producer went on after a "drain" and has again filled the
\* buffer above highWaterMark.
PausingProducerBoundedReached ==
    /\ pc \in {"registered", "await"} /\ hist.wasPaused
    /\ stream.length > stream.highWaterMark
    /\ Len(hist.accepted) > 2

\* C5 as stated: for every producer, also one that goes on writing after a
\* false write, writableLength never exceeds highWaterMark plus the size of
\* the write in flight.
CappedByMarkPlusInflight ==
    Writing(stream)
        => stream.length <= stream.highWaterMark + SumLen(stream.inflight)

\* C5, amended: for a producer that never writes between a false write and
\* the next "drain", writableLength stays below highWaterMark plus the size
\* of the chunk written last.
CappedWhenProducerPauses ==
    ~hist.ignored => stream.length < stream.highWaterMark + LastLen(hist)

\* C5 witness: an arbitrary producer that paused at every false write and
\* went on after a "drain" has brought writableLength above highWaterMark.
CappedWhenProducerPausesReached ==
    /\ pc = "any" /\ ~hist.ignored /\ hist.wasPaused
    /\ stream.length > stream.highWaterMark

\* The once("drain") callbacks that ran are pairwise different.
FiredOnce ==
    \A j, k \in 1..Len(hist.fired) : j # k => hist.fired[j].id # hist.fired[k].id

\* C6 as stated: a once("drain") callback fires at most once, and only if
\* writableLength has been strictly above highWaterMark since its
\* registration.
DrainedOnlyAfterCrossing ==
    /\ FiredOnce
    /\ \A k \in 1..Len(hist.fired) : hist.fired[k].over

\* C6, amended: a once("drain") callback fires at most once, and only after a
\* write has returned false (writableLength at or above highWaterMark) and
\* writableLength has then, with a completed flush, returned to 0, on a
\* stream that is not ending.
DrainedOnceAfterFalse ==
    /\ FiredOnce
    /\ \A k \in 1..Len(hist.fired) :
          /\ hist.fired[k].wasPaused
          /\ hist.fired[k].len = 0
          /\ hist.fired[k].state = "Open"

\* C6 witness: two callbacks fired on a drain, one of them registered after
\* writableLength was last above highWaterMark.
DrainedOnceAfterFalseReached ==
    /\ Len(hist.fired) = 2
    /\ \E k \in 1..2 : ~hist.fired[k].over
    /\ NWrites(hist) > 1

\* C7: write accepts a chunk only while the sink is Open or Draining; a write
\* on a Closing or Closed sink is refused with an error, returns false, and
\* leaves the buffered chunks, writableLength and the file unchanged.
RefusedAfterClose ==
    [][ /\ hist'.accepted # hist.accepted
            => SinkState(stream) \in {"Open", "Draining"}
        /\ (WriteStep /\ SinkState(stream) \in {"Closing", "Closed"})
            => /\ RefuseStep
               /\ stream'.writeErr \in {"ERR_STREAM_WRITE_AFTER_END",
                                        "ERR_STREAM_DESTROYED"}
               /\ ~stream'.ret
               /\ stream'.buffered = stream.buffered
               /\ stream'.inflight = stream.inflight
               /\ stream'.length = stream.length
               /\ stream'.file = stream.file ]_vars

\* C7 witness: a write was refused while a flush was in flight and chunks
\* were buffered.
RefusedAfterCloseReached ==
    /\ hist.refused > 0 /\ stream.errorTick
    /\ Writing(stream) /\ stream.buffered # <<>>

AllFlushed ==
    /\ stream.buffered = <<>> /\ stream.inflight = <<>>
    /\ stream.file = Concat(hist.accepted)

LengthIsQueued ==
    /\ stream.length = SumLen(stream.inflight) + SumLen(stream.buffered)
    /\ stream.length >= 0
    /\ stream.errored = "none"
          => stream.length =
                SumLen(hist.accepted) - (Len(stream.file) - stream.written)

\* How writableLength changes in a step of an arbitrary producer's run, and
\* that nothing else changes it.
LengthStep ==
    /\ AcceptStep => stream'.length = stream.length + LastLen(hist')
    /\ (RefuseStep \/ EndStep \/ OnceStep) => stream'.length = stream.length
    /\ PartStep => stream'.length = stream.length
    /\ DoneStep
          => stream'.length =
                stream.length - SumLen(stream.inflight)
                              - (IF stream.destroyed THEN SumLen(stream.buffered) ELSE 0)
    /\ FailStep => stream'.length = 0 /\ stream'.file = stream.file
    /\ (pc = "any" /\ stream'.length # stream.length)
          => AcceptStep \/ DoneStep \/ FailStep \/ GiveUpStep

NoWriteAfterFailure ==
    /\ [](stream.errored = "EIO" => ~Writing(stream))
    /\ [][ stream.errored = "EIO"
             => (stream'.file = stream.file /\ stream'.inflight = <<>>) ]_vars
    /\ [][ (stream.errored = "none" /\ stream'.errored = "EIO")
             => (/\ stream'.file = stream.file
                 /\ stream'.buffered = <<>> /\ stream'.length = 0) ]_vars

\* C13 witness: under part_000, the write of ' 2 ' failed after ' 0 ' and
\* ' 1 ' were confirmed, while ' 3 ' was buffered behind it; ' 3 ' is given up.
NoWriteAfterFailureReached ==
    /\ pc = "registered" /\ stream.errored = "EIO"
    /\ stream.file = Buff(0) \o Buff(1)
    /\ Len(hist.accepted) = 4
    /\ stream.buffered = <<>> /\ stream.length = 0

WaitersRejectedOnFailure ==
    (/\ pc = "any" /\ stream.errored = "EIO"
     /\ ~stream.errorTick /\ ~stream.finishTick /\ ~Writing(stream))
        => listeners.drain = <<>>

\* C15, amended: once a write has failed, the sink is Closed with the error
\* recorded, every later write is refused with an error, and the "drain"
\* listeners still waiting are neither called nor removed: no callback fires,
\* the producer of part_000 or of the README's loop is not resumed, and the
\* listeners stay registered.
TerminatedOnFailure ==
    /\ [](stream.errored = "EIO"
            => (SinkState(stream) = "Closed" /\ stream.destroyed))
    /\ [][ stream.errored = "EIO"
             => /\ stream'.errored = "EIO"
                /\ hist'.fired = hist.fired
                /\ hist'.accepted = hist.accepted
                /\ Len(listeners'.drain) = Len(listeners.drain)
                      + (IF OnceStep THEN 1 ELSE 0)
                /\ WriteStep
                      => (/\ RefuseStep /\ ~stream'.ret
                          /\ stream'.writeErr =
                                IF stream.ending
                                THEN "ERR_STREAM_WRITE_AFTER_END"
                                ELSE "ERR_STREAM_DESTROYED") ]_vars

\* C15 witness: a write failed before end() was called while a once("drain")
\* callback was waiting; a later write was refused and the callback is still
\* registered.
TerminatedOnFailureReached ==
    /\ pc = "any" /\ hist.ends = 0 /\ stream.errored = "EIO"
    /\ hist.refused > 0
    /\ listeners.drain # <<>> /\ hist.fired = <<>>
    /\ hist.sawFalse

\* C16: when fs.write takes only a part of the write in flight, the write
\* stays in flight with the rest of its bytes: writableLength is not
\* decremented, no buffered chunk is started, the bytes taken are appended to
\* the file once and the rest is exactly what is still to be written; when
\* the rest has been taken too, writableLength drops by the whole write
\* (under part_000 and the README's loop a "drain" handler may write again in
\* that step).
RemainderWrittenFirst ==
    /\ [](/\ stream.written > 0
                => (Writing(stream) /\ stream.written < SumLen(stream.inflight))
          /\ IsPrefix(stream.file, Concat(hist.accepted)))
    /\ [][ stream'.written > stream.written
             => /\ stream'.length = stream.length
                /\ stream'.inflight = stream.inflight
                /\ stream'.buffered = stream.buffered
                /\ Len(stream'.file) - Len(stream.file)
                      = stream'.written - stream.written
                /\ stream'.file \o Remainder(stream')
                      = stream.file \o Remainder(stream) ]_vars
    /\ [][ (stream.written > 0 /\ stream'.written = 0
              /\ stream.errored = "none" /\ stream'.errored = "none")
             => /\ stream'.file = stream.file \o Remainder(stream)
                /\ pc = "any"
                      => stream'.length
                            = stream.length - SumLen(stream.inflight)
                               - (IF stream.destroyed
                                  THEN SumLen(stream.buffered) ELSE 0) ]_vars

\* C16 witness: after a confirmed write, fs.write took a part of the write in
\* flight while another chunk was buffered behind it.
RemainderWrittenFirstReached ==
    /\ stream.written > 0 /\ stream.buffered # <<>>
    /\ Len(stream.file) > stream.written
    /\ stream.errored = "none"

\* C17: when "drain" is emitted, all once("drain") callbacks registered at
\* that moment run in that one step, in the order of their registration, each
\* once; all of them see the same writableLength and state (nothing else
\* happens between two of them), and none is left registered.
DrainRunsAllInOrder ==
    /\ []FiredOnce
    /\ [][ (pc = "any" /\ hist'.fired # hist.fired)
             => /\ Len(hist'.fired) = Len(hist.fired) + Len(listeners.drain)
                /\ SubSeq(hist'.fired, 1, Len(hist.fired)) = hist.fired
                /\ \A k \in 1..Len(listeners.drain) :
                      LET f == hist'.fired[Len(hist.fired) + k]
                      IN  /\ f.id = listeners.drain[k].id
                          /\ f.len = stream'.length
                          /\ f.state = SinkState(stream')
                /\ listeners'.drain = <<>> ]_vars

\* C17 witness: two callbacks ran on the same "drain", the one registered
\* first before the other.
DrainRunsAllInOrderReached ==
    /\ pc = "any" /\ Len(hist.accepted) = 1
    /\ Len(hist.fired) = 2
    /\ hist.fired[1].id = 1 /\ hist.fired[2].id = 2
    /\ listeners.drain = <<>>

\* C18 as stated: the once("drain") callbacks run in a step of their own,
\* never in the step in which the file confirms a write.
DrainedInLaterTask ==
    [][ hist'.fired # hist.fired => stream'.file = stream.file ]_vars

\* C18, amended: the "drain" listeners run inside the step in which the file
\* confirms the write that emptied the buffer, after writableLength has been
\* decremented and needDrain reset: a callback sees writableLength 0 and the
\* sink Open, and the writes that part_000's handler makes from inside the
\* callback start from there (the first goes to the file at once, since no
\* write is in flight any more, and writableLength is then the size of what
\* the handler wrote).
DrainedInsideCompletion ==
    /\ [][ hist'.fired # hist.fired
             => /\ Writing(stream) /\ stream'.file # stream.file
                /\ \A k \in (Len(hist.fired) + 1)..Len(hist'.fired) :
                      /\ hist'.fired[k].len = 0
                      /\ hist'.fired[k].state = "Open" ]_vars
    /\ [][ (pc = "registered" /\ hist'.accepted # hist.accepted)
             => /\ Writing(stream) /\ stream'.file = Concat(hist.accepted)
                /\ stream'.length
                      = SumLen(hist'.accepted) - SumLen(hist.accepted)
                /\ stream'.inflight = <<hist'.accepted[Len(hist.accepted) + 1]>>
                /\ stream'.needDrain = ~stream'.ret ]_vars

\* C18 witness: part_000's handler ran on a "drain" and wrote several chunks:
\* the first is in flight, the others are buffered.
DrainedInsideCompletionReached ==
    /\ pc = "registered" /\ hist.wasPaused
    /\ stream.file # <<>> /\ Len(stream.inflight) = 1 /\ stream.written = 0
    /\ Len(stream.buffered) >= 2
    /\ stream.length = SumLen(hist.accepted) - Len(stream.file)

\* C19 as stated: once end() has been called, and unless a write to the file
\* fails, every accepted chunk eventually is in the file (end() always drains
\* before the sink is closed).
EndAlwaysDrains ==
    stream.ending
        ~> (stream.file = Concat(hist.accepted) \/ stream.errored = "EIO")

\* C19, amended: once end() has been called, "finish" eventually fires with
\* every accepted chunk in the file, unless a write to the file fails or a
\* write is attempted after end() (which destroys the stream and gives up the
\* buffered chunks); in every case the sink eventually is Closed, nothing is
\* in flight or buffered any more, and no tick is left queued.
EndFinishesUnlessError ==
    /\ stream.ending ~> (stream.finished \/ stream.errored # "none")
    /\ stream.ending
          ~> (/\ SinkState(stream) = "Closed"
              /\ ~Writing(stream) /\ stream.buffered = <<>>
              /\ ~stream.finishTick /\ ~stream.errorTick)
    /\ [](stream.finished => AllFlushed)

\* C19 witness: end() was called with a write in flight and chunks buffered
\* (a write had returned false), and "finish" has fired.
EndFinishesUnlessErrorReached ==
    /\ pc = "any" /\ hist.ends > 0 /\ stream.finished
    /\ hist.sawFalse /\ hist.fired = <<>>
    /\ Len(hist.accepted) = 3
    /\ stream.file = Concat(hist.accepted)

\* The chunks the stream holds and has not handed to the file in full.
Pending(s) == Remainder(s) \o Concat(s.buffered)

\* C27: a write that returns false has still accepted its chunk. For an
\* arbitrary producer: a write() call on a stream that is neither ended nor
\* destroyed appends its chunk to what is pending and counts it in
\* writableLength, whatever it returns. For part_000 and the README loop,
\* which go on with index i after every write, also a false one: the chunks
\* accepted are those of the indices 0..i-1, each once and in order, none
\* refused, and as long as no write has failed each of them is either in the
\* file or pending, once.
FalseStillAccepted ==
    /\ [][WriteStep /\ Accepted(stream)
            => /\ AcceptStep
               /\ Pending(stream') =
                     Pending(stream) \o hist'.accepted[Len(hist'.accepted)]
               /\ stream'.length = stream.length + LastLen(hist')]_vars
    /\ [](pc # "any"
            => /\ hist.accepted = SubSeq(AllBuffs, 1, i)
               /\ hist.refused = 0
               /\ stream.errored = "none"
                     => stream.file \o Pending(stream)
                           = Concat(SubSeq(AllBuffs, 1, i)))

\* C27 witness: part_000's writeBuff has stopped at a false write for the
\* second time, with the chunk of that write buffered and indices left.
FalseStillAcceptedReached ==
    /\ pc = "registered" /\ hist.wasPaused /\ hist.paused
    /\ ~stream.ret /\ i < Total
    /\ stream.buffered # <<>>
    /\ stream.buffered[Len(stream.buffered)] = Buff(i - 1)

\* C28: at most one device write is in flight at any time. A write() call
\* made while a write is in flight leaves that write alone and buffers its
\* chunk; a new device write is handed to the file only when none is in
\* flight, or in the step in which the file confirms the one in flight, whose
\* bytes are then all in the file (the new write takes what is buffered, or,
\* with nothing buffered, what a "drain" listener writes in that step); and
\* what is in flight and what is buffered are different chunks.
OneWriteInFlight ==
    /\ [][WriteStep /\ Writing(stream)
            => /\ stream'.inflight = stream.inflight
               /\ stream'.written = stream.written
               /\ stream'.file = stream.file]_vars
    /\ [][stream'.inflight # stream.inflight /\ stream'.inflight # <<>>
            => \/ ~Writing(stream)
               \/ /\ stream'.file = stream.file \o Remainder(stream)
                  /\ stream'.written = 0
                  /\ stream.buffered # <<>>
                        => stream'.inflight = stream.buffered]_vars
    /\ [](Writing(stream) /\ stream.errored = "none"
            => IsPrefix(stream.file \o Pending(stream), Concat(hist.accepted))
               /\ stream.written < SumLen(stream.inflight))

\* C28 witness: the file has taken a part of the write in flight, chunks
\* written meanwhile are buffered behind it, and an earlier write is in the
\* file.
OneWriteInFlightReached ==
    /\ pc = "any" /\ Writing(stream) /\ stream.written > 0
    /\ Len(stream.buffered) >= 1 /\ Len(stream.file) > stream.written

\* C29: the sink's state only moves forward. No step leads from Closing back
\* to Open or Draining, and no step leads out of Closed. The moves between
\* Open and Draining go both ways and follow writableLength across
\* highWaterMark: the stream is Open only below the mark, the step from Open
\* to Draining is a write that brings writableLength to the mark or above,
\* and the step from Draining to Open ("drain") leaves it below the mark.
StateMovesForward ==
    /\ [][/\ SinkState(stream) = "Closing"
               => SinkState(stream') \in {"Closing", "Closed"}
          /\ SinkState(stream) = "Closed" => SinkState(stream') = "Closed"
          /\ SinkState(stream) = "Open" /\ SinkState(stream') = "Draining"
               => /\ stream'.length >= stream.highWaterMark
                  /\ Len(hist'.accepted) > Len(hist.accepted)
          /\ SinkState(stream) = "Draining" /\ SinkState(stream') = "Open"
               => /\ stream'.length < stream.highWaterMark
                  /\ stream'.file # stream.file]_vars
    /\ [](SinkState(stream) = "Open" => stream.length < stream.highWaterMark)

\* C29 witness: a stream that went from Open to Draining and back to Open,
\* then through Closing to Closed, where a later write() was refused and the
\* state stayed Closed.
StateMovesForwardReached ==
    /\ pc = "any" /\ hist.wasPaused /\ stream.finished
    /\ hist.ends > 0 /\ hist.refused > 0
    /\ SinkState(stream) = "Closed"

\* C30: part_000 calls stream.end at most once, and exactly when i has
\* reached Total: with the chunk of index Total-1, accepted as the last of
\* all Total chunks. From then on nothing is written or ended on the stream:
\* no step adds a write() or end() call, and writeBuff, were it invoked
\* again, would change nothing.
EndedOnceWithLastChunk ==
    /\ [](pc \in {"start", "registered"}
            => /\ hist.ends = (IF i = Total THEN 1 ELSE 0)
               /\ stream.ending = (hist.ends = 1)
               /\ hist.ends = 1
                     => /\ hist.accepted = AllBuffs
                        /\ hist.refused = 0
                        /\ writeBuff(Here) = Here)
    /\ [][hist.ends = 1 /\ pc \in {"start", "registered"}
            => /\ hist'.ends = 1
               /\ hist'.accepted = hist.accepted
               /\ hist'.refused = hist.refused]_vars

\* C30 witness: part_000 has ended the stream from a writeBuff that a "drain"
\* started, and the stream has finished since.
EndedOnceWithLastChunkReached ==
    /\ pc = "registered" /\ hist.ends = 1 /\ hist.wasPaused
    /\ stream.finished /\ i = Total

\* ================================================== writeMany.js: the script
\* The indices from a up to ManyTotal-1, in order.
Indices(a) == [k \in 1..(ManyTotal - a) |-> a + k - 1]

\* writeManyPromise's loop without the await: every write is issued at once.
writeManyPromiseNoAwait(m) ==
    [m EXCEPT !.pqueued  = @ \cup {k \in 0..(ManyTotal - 1) : k >= m.pindex},
              !.pissued  = @ \o Indices(m.pindex),
              !.pindex   = ManyTotal,
              !.pawait   = "none",
              !.psettled = "pending",
              !.timeEnd.p = Len(m.pdone)]

\* writeManyPromise from the loop's test on: issue fileHandle.write(index) and
\* suspend at the await, or leave the loop and stop the timer.
writeManyPromise(m) ==
    IF m.pindex < ManyTotal
    THEN [m EXCEPT !.pqueued  = @ \cup {m.pindex},
                   !.pissued  = Append(@, m.pindex),
                   !.pawait   = "write",
                   !.psettled = "pending"]
    ELSE [m EXCEPT !.pawait   = "none",
                   !.psettled = "pending",
                   !.timeEnd.p = Len(m.pdone)]

\* The step leads to the script state m; the stream's variables stay.
ManyBecomes(m) ==
    /\ many' = m
    /\ UNCHANGED <<stream, listeners, i, pc, hist, fixed, uploader, pool, copy>>

\* Callbacks that run whatever JavaScript is running.
JsAnyTime == ~many.crashed

\* JavaScript can run: the process is alive and no other JavaScript runs.
JsIdle == ~many.crashed /\ many.js = "idle"

\* The script with console.timeEnd moved out of writeManySync and
\* writeManyCallBack: the two timers are left running.
ManyScriptNoTimeEnd ==
    /\ pc = "many" /\ ~many.script
    /\ ManyBecomes([many EXCEPT !.script = TRUE,
                                !.pawait = "open",
                                !.sopen = "queued",
                                !.copen = "queued"])

\* The top-level script: the three async functions run one after the other
\* up to their first await or to their end. writeManyPromise suspends at
\* await openPromise(); the other two queue their open and stop their timer
\* at once.
ManyScript ==
    /\ pc = "many" /\ ~many.script
    /\ ManyBecomes([many EXCEPT !.script = TRUE,
                                !.pawait = "open",
                                !.sopen = "queued",
                                !.timeEnd.s = Len(many.sdone),
                                !.copen = "queued",
                                !.timeEnd.c = many.ccalled])

\* The thread pool has opened one of the three files, or failed to.
OpenDone ==
    /\ ~many.crashed
    /\ \E ok \in BOOLEAN :
         \/ /\ many.pawait = "open" /\ many.psettled = "pending"
            /\ ManyBecomes([many EXCEPT
                   !.psettled = IF ok THEN "ok" ELSE "failed"])
         \/ /\ many.sopen = "queued"
            /\ ManyBecomes([many EXCEPT
                   !.sopen = IF ok THEN "ready" ELSE "failed"])
         \/ /\ many.copen = "queued"
            /\ ManyBecomes([many EXCEPT
                   !.copen = IF ok THEN "ready" ELSE "failed"])

\* writeManyPromise goes on behind its await: with the next index when the
\* awaited write is done; a failed write rejects the async function's promise,
\* which nothing handles.
PromiseStep ==
    /\ JsIdle
    /\ many.pawait # "none" /\ many.psettled # "pending"
    /\ IF many.psettled = "failed"
       THEN ManyBecomes([many EXCEPT !.crashed = TRUE])
       ELSE ManyBecomes(writeManyPromise(
                IF many.pawait = "open" THEN many
                ELSE [many EXCEPT !.pindex = @ + 1]))

\* The thread pool carries out a write of writeManyPromise, or fails it.
PromiseWriteDone ==
    /\ ~many.crashed
    /\ \E k \in many.pqueued : \E ok \in BOOLEAN :
         ManyBecomes([many EXCEPT
             !.pqueued  = @ \ {k},
             !.pdone    = IF ok THEN Append(@, k) ELSE @,
             !.psettled = IF many.pawait = "write" /\ @ = "pending"
                          THEN (IF ok THEN "ok" ELSE "failed") ELSE @])

\* writeManySync's open callback starts its loop. The callback ignores the
\* error of a failed open: fd is undefined and the first writeSync throws.
SyncOpenCb ==
    /\ JsIdle
    /\ many.sopen \in {"ready", "failed"}
    /\ IF many.sopen = "ready"
       THEN ManyBecomes([many EXCEPT !.sopen = "done", !.js = "sync"])
       ELSE ManyBecomes([many EXCEPT !.sopen = "done", !.crashed = TRUE])

\* One writeSync of the loop: it returns when the bytes are written, or
\* throws; the loop ends behind the last index.
SyncWrite ==
    /\ ~many.crashed /\ many.js = "sync"
    /\ \E ok \in BOOLEAN :
         IF ok
         THEN ManyBecomes([many EXCEPT
                  !.sdone  = Append(@, many.sindex),
                  !.sindex = @ + 1,
                  !.js     = IF many.sindex + 1 < ManyTotal THEN "sync" ELSE "idle"])
         ELSE ManyBecomes([many EXCEPT !.crashed = TRUE])

\* writeManyCallBack's open callback starts its loop. The callback ignores
\* the error of a failed open: fd is undefined and the first write throws.
CbOpenCb ==
    /\ JsIdle
    /\ many.copen \in {"ready", "failed"}
    /\ IF many.copen = "ready"
       THEN ManyBecomes([many EXCEPT !.copen = "done", !.js = "cb"])
       ELSE ManyBecomes([many EXCEPT !.copen = "done", !.crashed = TRUE])

\* One write of the loop with a pause behind it, in which other callbacks run.
CbIssueYield ==
    /\ ~many.crashed /\ many.js \in {"cb", "idle"}
    /\ many.copen = "done" /\ many.cindex < ManyTotal
    /\ ManyBecomes([many EXCEPT !.cqueued = @ \cup {many.cindex},
                                !.cindex  = @ + 1,
                                !.js      = "idle"])

\* One write(fd, index, () => {}) of the loop: the request is queued in the
\* thread pool and the loop goes on; it ends behind the last index.
CbIssue ==
    /\ ~many.crashed /\ many.js = "cb"
    /\ ManyBecomes([many EXCEPT
           !.cqueued = @ \cup {many.cindex},
           !.cindex  = @ + 1,
           !.js      = IF many.cindex + 1 < ManyTotal THEN "cb" ELSE "idle"])

\* The thread pool carries out one of writeManyCallBack's writes, whichever,
\* or fails it.
CbWriteDone ==
    /\ ~many.crashed
    /\ \E k \in many.cqueued : \E ok \in BOOLEAN :
         ManyBecomes([many EXCEPT
             !.cqueued = @ \ {k},
             !.cexec   = IF ok THEN Append(@, k) ELSE @,
             !.cfailed = IF ok THEN @ ELSE @ + 1])

\* The callback () => {} of a write the thread pool is done with runs; it
\* ignores the write's error.
CbCallback ==
    /\ JsIdle
    /\ many.ccalled < Len(many.cexec) + many.cfailed
    /\ ManyBecomes([many EXCEPT !.ccalled = @ + 1])

ManyInit ==
    /\ pc = "many"
    /\ stream = NewStream(1)
    /\ listeners = [drain |-> <<>>, finish |-> FALSE]
    /\ i = 0
    /\ hist = NewHist
    /\ many = NewMany
    /\ fixed = NewFixed
    /\ uploader = NewUploader
    /\ pool = NewPool
    /\ copy = NewCopy

ManyNext ==
    \/ ManyScript
    \/ OpenDone
    \/ PromiseStep
    \/ PromiseWriteDone
    \/ SyncOpenCb
    \/ SyncWrite
    \/ CbOpenCb
    \/ CbIssue
    \/ CbWriteDone
    \/ CbCallback

ManySpec == ManyInit /\ [][ManyNext]_vars

\* C20: writeManyPromise has at most one write queued at any time; it issues
\* the indices in increasing order, each only after the one before it was
\* written, so what is written is what was issued, in that order, short of
\* the one write that may be queued.
PromiseOneAtATime ==
    /\ Cardinality(many.pqueued) <= 1
    /\ many.pissued = [k \in 1..Len(many.pissued) |-> k - 1]
    /\ IsPrefix(many.pdone, many.pissued)
    /\ Len(many.pissued) - Len(many.pdone) <= 1
    /\ many.pqueued # {}
          => /\ many.pqueued = {many.pissued[Len(many.pissued)]}
             /\ many.pdone = SubSeq(many.pissued, 1, Len(many.pissued) - 1)

\* C20 witness: writeManyPromise has written every index and stopped its
\* timer, while writes of writeManyCallBack are still queued.
PromiseOneAtATimeReached ==
    /\ many.pdone = Indices(0) /\ many.timeEnd.p = ManyTotal
    /\ many.cqueued # {} /\ many.cexec # <<>>

\* A write of writeManyCallBack is in flight from its issue until its
\* callback has run.
CbInFlight(m) == m.cindex - m.ccalled

\* C21: in writeManyCallBack every write is issued before any of them
\* completes (before any write callback runs): while the loop runs, and as
\* long as an index is left to issue, no callback has run; once begun the loop
\* runs to its end; and at the step that ends the loop all ManyTotal writes
\* are in flight, so the number in flight is bounded by nothing but the
\* number of writes.
CallbackAllInFlight ==
    /\ [](many.cindex < ManyTotal => many.ccalled = 0)
    /\ [](many.js = "cb" => many.ccalled = 0 /\ ~many.crashed)
    /\ [](many.cindex > 0 /\ many.js # "cb" => many.cindex = ManyTotal)
    /\ [][many.js = "cb" /\ many'.js # "cb"
            => CbInFlight(many') = ManyTotal]_vars

\* C21 witness: the loop has ended, every write is queued in the thread pool
\* and none was carried out: ManyTotal writes are in flight.
CallbackAllInFlightReached ==
    /\ many.js = "idle" /\ many.cindex = ManyTotal
    /\ many.cqueued = 0..(ManyTotal - 1) /\ CbInFlight(many) = ManyTotal

\* C22: writeManyCallBack's timer is stopped before any of its writes has
\* completed: console.timeEnd("writeManyCallBack") has run by the time the
\* open is queued, with no write callback run, and so before a write is
\* issued, carried out or called back.
CallbackTimerStopsFirst ==
    /\ many.copen # "none" => many.timeEnd.c = 0
    /\ (many.cindex > 0 \/ many.cexec # <<>> \/ many.cfailed > 0
           \/ many.ccalled > 0) => many.timeEnd.c = 0

\* C22 witness: every write of writeManyCallBack was carried out and called
\* back, long after the timer stopped.
CallbackTimerStopsFirstReached ==
    /\ many.ccalled = ManyTotal /\ Len(many.cexec) = ManyTotal
    /\ many.timeEnd.c = 0

\* C23: console.timeEnd("writeManySync") runs only after every writeSync
\* call of writeManySync has returned: when the timer has stopped, it stopped
\* with all ManyTotal indices written.
SyncTimerAfterLoop ==
    many.timeEnd.s # -1 => many.timeEnd.s = ManyTotal

\* C24: while writeManySync's loop runs nothing else runs: a step taken
\* between its first and its last writeSync leaves writeManyPromise where it
\* is suspended (no continuation: same index, same issued writes, same timer)
\* and runs no open callback and no write callback of writeManyCallBack. The
\* thread pool goes on carrying out queued writes meanwhile; their callbacks
\* and continuations wait.
SyncBlocksOthers ==
    [][many.js = "sync"
         => /\ many'.js \in {"sync", "idle"}
            /\ many'.pindex = many.pindex
            /\ many'.pissued = many.pissued
            /\ many'.pawait = many.pawait
            /\ many'.timeEnd = many.timeEnd
            /\ (many'.copen = "done") = (many.copen = "done")
            /\ many'.cindex = many.cindex
            /\ many'.ccalled = many.ccalled]_vars

\* C24 witness: the loop is between two writeSync calls while a continuation
\* of writeManyPromise and a write callback of writeManyCallBack are due.
SyncBlocksOthersReached ==
    /\ many.js = "sync" /\ many.sindex > 0
    /\ many.pawait = "write" /\ many.psettled = "ok"
    /\ many.ccalled < Len(many.cexec)

\* ================= brenchMarking/README.md: the corrected callback variant
\* The write callback that stops the timer when the write of the last index
\* is done, instead of counting.
writeCallbackLastIndex(f, k) ==
    LET c == f.completed + 1
    IN  [f EXCEPT !.completed = c,
                  !.timeEnds  = IF k = ManyTotal - 1 THEN @ + 1 ELSE @,
                  !.timeEndAt = IF k = ManyTotal - 1 /\ @ = -1
                                THEN Len(f.called) ELSE @]

\* The callback of the write of index k:
\*   completed++; if (completed === total) console.timeEnd(...)
\* (total is the loop's bound, ManyTotal here).
writeCallback(f, k) ==
    LET c == f.completed + 1
    IN  [f EXCEPT !.completed = c,
                  !.timeEnds  = IF c = ManyTotal THEN @ + 1 ELSE @,
                  !.timeEndAt = IF c = ManyTotal /\ @ = -1
                                THEN Len(f.called) ELSE @]

\* The step leads to the variant's state f; everything else stays.
FixedBecomes(f) ==
    /\ fixed' = f
    /\ UNCHANGED <<stream, listeners, i, pc, hist, many, uploader, pool, copy>>

\* The async function: start the timer, queue the open, return.
FixedScript ==
    /\ pc = "fixed" /\ ~fixed.script
    /\ FixedBecomes([fixed EXCEPT !.script = TRUE, !.open = "queued"])

\* The thread pool has opened the file, or failed to.
FixedOpenDone ==
    /\ fixed.open = "queued"
    /\ \E ok \in BOOLEAN :
         FixedBecomes([fixed EXCEPT !.open = IF ok THEN "ready" ELSE "failed"])

\* The open callback starts its loop with completed = 0. It ignores the error
\* of a failed open: fd is undefined and the first write throws.
FixedOpenCb ==
    /\ ~fixed.crashed /\ fixed.open \in {"ready", "failed"}
    /\ IF fixed.open = "ready"
       THEN FixedBecomes([fixed EXCEPT !.open = "done", !.looping = TRUE,
                                       !.completed = 0])
       ELSE FixedBecomes([fixed EXCEPT !.open = "done", !.crashed = TRUE])

\* One write(fd, index, callback) of the loop.
FixedIssue ==
    /\ fixed.looping
    /\ FixedBecomes([fixed EXCEPT
           !.queued  = @ \cup {fixed.index},
           !.index   = @ + 1,
           !.looping = fixed.index + 1 < ManyTotal])

\* The thread pool is done with one of the queued writes, whichever: it is
\* written, or it failed (the callback does not look at the error).
FixedWriteDone ==
    /\ ~fixed.crashed
    /\ \E k \in fixed.queued : \E ok \in BOOLEAN :
         FixedBecomes([fixed EXCEPT !.queued = @ \ {k},
                                    !.file   = IF ok THEN Append(@, k) ELSE @,
                                    !.ready  = Append(@, k)])

\* The event loop runs the callback of the write that was done first, when
\* no other JavaScript runs.
FixedCallback ==
    /\ ~fixed.crashed /\ ~fixed.looping /\ fixed.ready # <<>>
    /\ LET k == Head(fixed.ready)
       IN  FixedBecomes(writeCallback(
               [fixed EXCEPT !.ready  = Tail(@),
                             !.called = Append(@, k)], k))

FixedInit ==
    /\ pc = "fixed"
    /\ stream = NewStream(1)
    /\ listeners = [drain |-> <<>>, finish |-> FALSE]
    /\ i = 0
    /\ hist = NewHist
    /\ many = NewMany
    /\ fixed = NewFixed
    /\ uploader = NewUploader
    /\ pool = NewPool
    /\ copy = NewCopy

FixedNext ==
    \/ FixedScript
    \/ FixedOpenDone
    \/ FixedOpenCb
    \/ FixedIssue
    \/ FixedWriteDone
    \/ FixedCallback

FixedSpec == FixedInit /\ [][FixedNext]_vars

\* C25: in the README's corrected callback version console.timeEnd is called
\* exactly once, and only after all total write callbacks have run, whatever
\* order the writes are done in: completed counts the callbacks that have
\* run, the timer has been stopped once when all ManyTotal of them have and
\* not at all before, and it was stopped with all of them run.
FixedTimerOnceAtEnd ==
    /\ fixed.completed = Len(fixed.called)
    /\ fixed.timeEnds = (IF Len(fixed.called) = ManyTotal THEN 1 ELSE 0)
    /\ fixed.timeEnds > 0 => fixed.timeEndAt = ManyTotal

\* C25 witness: the timer has stopped after the writes were done in another
\* order than they were issued in, the last index first, and one has failed.
FixedTimerOnceAtEndReached ==
    /\ fixed.timeEnds = 1 /\ fixed.completed = ManyTotal
    /\ fixed.called[1] = ManyTotal - 1
    /\ Len(fixed.file) = ManyTotal - 1

\* ================================== EvenEmitter/README.md: the FileUploader
\* The arguments upload() is called with.
FileNames == {"document.pdf", "photo.png"}
FileSizes == {5}

\* An emitted event, with the upload() call that emitted it.
Event(ev, c, fileName, arg) ==
    [ev |-> ev, call |-> c, fileName |-> fileName, arg |-> arg]

\* upload(fileName, fileSize): emit uploadStart, then set the interval with
\* progress = 0.
upload(u, fileName, fileSize) ==
    LET c == Len(u.calls) + 1
    IN  [calls |-> Append(u.calls, [fileName |-> fileName, progress |-> 0,
                                    interval |-> TRUE]),
         log   |-> Append(u.log, Event("uploadStart", c, fileName, fileSize))]

\* The interval's callback without the clearInterval.
tickNoClear(u, c) ==
    LET progress == u.calls[c].progress + 25
        fileName == u.calls[c].fileName
        u1 == [u EXCEPT !.calls[c].progress = progress,
                        !.log = Append(@, Event("uploadProgress", c,
                                                fileName, progress))]
    IN  IF progress >= 100
        THEN [u1 EXCEPT !.log = Append(@, Event("uploadComplete", c,
                                                fileName, 0))]
        ELSE u1

\* The interval's callback of call c: progress += 25, emit uploadProgress,
\* and at 100 clear the interval and emit uploadComplete.
tick(u, c) ==
    LET progress == u.calls[c].progress + 25
        fileName == u.calls[c].fileName
        u1 == [u EXCEPT !.calls[c].progress = progress,
                        !.log = Append(@, Event("uploadProgress", c,
                                                fileName, progress))]
    IN  IF progress >= 100
        THEN [u1 EXCEPT !.calls[c].interval = FALSE,
                        !.log = Append(@, Event("uploadComplete", c,
                                                fileName, 0))]
        ELSE u1

\* The step leads to the uploader's state u; everything else stays.
UploaderBecomes(u) ==
    /\ uploader' = u
    /\ UNCHANGED <<stream, listeners, i, pc, hist, many, fixed, pool, copy>>

\* uploader.upload(fileName, fileSize) is called.
Upload ==
    /\ pc = "upload" /\ Len(uploader.calls) < MaxUploads
    /\ \E fileName \in FileNames : \E fileSize \in FileSizes :
         UploaderBecomes(upload(uploader, fileName, fileSize))

\* The interval of one of the calls fires. The intervals have the same
\* period, so a call's interval fires for the n-th time only after those of
\* the calls before it have.
Tick ==
    /\ pc = "upload"
    /\ \E c \in 1..Len(uploader.calls) :
         /\ uploader.calls[c].interval
         /\ \A b \in 1..(c - 1) :
                uploader.calls[b].progress > uploader.calls[c].progress
         /\ UploaderBecomes(tick(uploader, c))

UploaderInit ==
    /\ pc = "upload"
    /\ stream = NewStream(1)
    /\ listeners = [drain |-> <<>>, finish |-> FALSE]
    /\ i = 0
    /\ hist = NewHist
    /\ many = NewMany
    /\ fixed = NewFixed
    /\ uploader = NewUploader
    /\ pool = NewPool
    /\ copy = NewCopy

UploaderNext == Upload \/ Tick

UploaderSpec == UploaderInit /\ [][UploaderNext]_vars

\* The events of call c, in the order they were emitted.
EventsOf(c) == SelectSeq(uploader.log, LAMBDA e : e.call = c)

\* The events in the documented order for the start event e.
Documented(e) ==
    <<e>> \o [k \in 1..4 |-> Event("uploadProgress", e.call, e.fileName, 25 * k)]
          \o <<Event("uploadComplete", e.call, e.fileName, 0)>>

\* C26: every upload() call emits one uploadStart, then uploadProgress with
\* 25, 50, 75, 100, then one uploadComplete, and nothing after it: at any
\* time the events of a call are the beginning of that list, as far as its
\* progress has come; the interval is set until uploadComplete is emitted
\* and cleared from then on, with the whole list emitted.
UploadEventsInOrder ==
    \A c \in 1..Len(uploader.calls) :
        LET evs  == EventsOf(c)
            call == uploader.calls[c]
        IN  /\ evs # <<>>
            /\ evs[1].ev = "uploadStart" /\ evs[1].fileName = call.fileName
            /\ IsPrefix(evs, Documented(evs[1]))
            /\ call.interval => Len(evs) = 1 + call.progress \div 25
            /\ call.interval = (Len(evs) < 6)
            /\ ~call.interval => call.progress = 100

\* C26 witness: a call has emitted uploadComplete, and a later call has
\* emitted events since and is still uploading.
UploadEventsInOrderReached ==
    /\ Len(uploader.calls) >= 2
    /\ ~uploader.calls[1].interval
    /\ uploader.calls[2].interval /\ uploader.calls[2].progress >= 50
    /\ uploader.log[Len(uploader.log)].call = 2

\* ================================================= part_000 on its own
\* part_000 alone, under the event loop's scheduling, once its top-level
\* script has run: the construction completes, queued ticks run, and the file answers every write handed to
\* it (by confirming it, by taking a part of it, or by failing it).
BuffInit ==
    /\ pc = "start"
    /\ \E hwm \in 1..MaxBuffHWM : stream = NewStream(hwm)
    /\ listeners = [drain |-> <<>>, finish |-> FALSE]
    /\ i = 0
    /\ hist = NewHist
    /\ many = NewMany
    /\ fixed = NewFixed
    /\ uploader = NewUploader
    /\ pool = NewPool
    /\ copy = NewCopy

BuffNext ==
    \/ BuffMain
    \/ Construct
    \/ WriteDone
    \/ WriteFail
    \/ WritePartial
    \/ FdClose

BuffFairSpec ==
    /\ BuffInit /\ [][BuffNext]_vars
    /\ WF_vars(Construct)
    /\ WF_vars(WriteFail \/ WritePartial \/ WriteDone)

\* C31: part_000 never stalls, provided the file completes its writes. Every
\* time writeBuff has stopped at a false write (the first time included,
\* which is before the "drain" handler is registered), "drain" is later
\* emitted and writeBuff goes on with the next index (in the step that
\* emits it), unless a write to the file fails; and
\* unless one fails, all Total chunks are eventually submitted and in the
\* file, "finish" has fired and its handler has closed the file handle.
BuffNeverStalls ==
    /\ \A n \in 1..Total :
          (hist.paused /\ ~stream.ending /\ i = n)
             ~> (hist.wasPaused /\ i > n) \/ stream.errored # "none"
    /\ pc = "registered"
          ~> \/ stream.errored # "none"
             \/ /\ i = Total /\ hist.accepted = AllBuffs
                /\ stream.finished /\ stream.file = Concat(AllBuffs)
                /\ hist.fdCloses = 1

\* C31 witness: part_000 has finished and closed the file handle after
\* writeBuff had stopped at a false write in the top-level call and again in
\* a call from the "drain" handler.
BuffNeverStallsReached ==
    /\ pc = "registered" /\ stream.finished /\ hist.fdCloses = 1
    /\ hist.wasPaused /\ i = Total
    /\ stream.file = Concat(AllBuffs)
    /\ stream.highWaterMark <= 3

\* ======================================================= 05_Streams/main.js
\* The two chunks of lines 9 and 13.
MainBuff == <<66>>
OverBuff == [j \in 1..OverLen |-> 65]

\* Lines 9-25 up to the await: write(buff), write(overBuff), on("drain"),
\* end(), once("finish", resolve). The awaited promise can resolve only if
\* "finish" has not been emitted before its listener is registered.
MainScript ==
    /\ pc = "main"
    /\ LET s1 == Write(stream, MainBuff)
           h1 == NoteWrite(hist, stream, s1, MainBuff)
           s2 == Write(s1, OverBuff)
           h2 == NoteWrite(h1, s1, s2, OverBuff)
           s3 == End(s2)
       IN  Becomes(Ctx(s3, i, IF s3.finished THEN "missed" ELSE "await",
                       [h2 EXCEPT !.ends = @ + 1]),
                   [listeners EXCEPT !.drain = Append(@, OnMore)])

\* "finish" has been emitted: the promise of line 25 is resolved and the
\* module has run to its end.
MainResume ==
    /\ pc = "await" /\ stream.finished
    /\ Becomes([Here EXCEPT !.pc = "done"], listeners)

MainInit ==
    /\ pc = "main"
    /\ \E hwm \in 1..MaxMainHWM : stream = NewStream(hwm)
    /\ listeners = [drain |-> <<>>, finish |-> FALSE]
    /\ i = 0
    /\ hist = NewHist
    /\ many = NewMany
    /\ fixed = NewFixed
    /\ uploader = NewUploader
    /\ pool = NewPool
    /\ copy = NewCopy

MainNext ==
    \/ MainScript
    \/ Construct
    \/ WriteDone
    \/ WriteFail
    \/ WritePartial
    \/ MainResume

MainSpec == MainInit /\ [][MainNext]_vars

\* main.js under the event loop's scheduling, once its top-level code has
\* run up to the await.
MainFairSpec ==
    /\ MainSpec
    /\ WF_vars(Construct)
    /\ WF_vars(MainResume)
    /\ WF_vars(WriteFail \/ WritePartial \/ WriteDone)

\* C32: in main.js no chunk is submitted after the stream was ended: the
\* only write() calls are the two of lines 10 and 14, both accepted, none is
\* refused and the stream is never destroyed by a write after end: the
\* "drain" handler never runs, also when the second write has returned false
\* and left needDrain set.
MainNoWriteAfterEnd ==
    pc \in {"await", "missed", "done"}
        => /\ hist.accepted = <<MainBuff, OverBuff>>
           /\ hist.refused = 0 /\ hist.ends = 1
           /\ stream.writeErr = "none"
           /\ stream.errored # "ERR_STREAM_WRITE_AFTER_END"
           /\ stream.ending
           /\ stream.needDrain = (1 + OverLen >= stream.highWaterMark)
           /\ listeners.drain # <<>>

\* C32 witness: the second write returned false, the stream was ended, and
\* both chunks are in the file with needDrain still set and the handler
\* still registered: the "drain" that was due did not come.
MainNoWriteAfterEndReached ==
    /\ pc = "done" /\ hist.sawFalse /\ stream.needDrain
    /\ stream.length = 0 /\ stream.file = MainBuff \o OverBuff

\* C33: main.js terminates with all data written. Once the top-level code
\* waits for "finish", "finish" is eventually emitted and the awaited
\* promise resolves, however the file answers (in one piece or in parts),
\* unless a write to the file fails; "finish" is never emitted before its
\* listener is registered; and when the promise has resolved the file holds
\* the one byte of line 9 followed by the OverLen bytes of line 13. At any
\* time what is in the file is a beginning of that.
MainTerminates ==
    /\ pc = "await" ~> (pc = "done" \/ stream.errored # "none")
    /\ [](pc # "missed")
    /\ [](pc = "done"
            => /\ stream.finished /\ stream.length = 0
               /\ stream.file = MainBuff \o OverBuff)
    /\ [](IsPrefix(stream.file, MainBuff \o OverBuff))

\* C33 witness: the promise has resolved after the file took the two chunks
\* in parts, with no "drain" due (both writes had returned true).
MainTerminatesReached ==
    /\ pc = "done" /\ stream.finished /\ ~hist.sawFalse
    /\ stream.file = MainBuff \o OverBuff
    /\ stream.highWaterMark > 1 + OverLen

\* ================================== EvenEmitter/README.md: the DatabasePool
\* connect() with the test for a full pool off by one (<=).
connectOffByOne(p) ==
    LET c == p.calls + 1
    IN  IF p.active <= p.max
        THEN [p EXCEPT !.calls  = c,
                       !.active = @ + 1,
                       !.held   = @ \cup {[call |-> c, id |-> p.active + 1]}]
        ELSE [p EXCEPT !.calls  = c,
                       !.queue  = Append(@, c),
                       !.waited = Append(@, c)]

\* connect(): below maxConnections the call is answered at once with
\* { id: ++activeConnections }; otherwise its resolve is queued.
connect(p) ==
    LET c == p.calls + 1
    IN  IF p.active < p.max
        THEN [p EXCEPT !.calls  = c,
                       !.active = @ + 1,
                       !.held   = @ \cup {[call |-> c, id |-> p.active + 1]}]
        ELSE [p EXCEPT !.calls  = c,
                       !.queue  = Append(@, c),
                       !.waited = Append(@, c)]

\* release(connection): activeConnections--, and the first waiting call, if
\* any, is answered with { id: ++activeConnections }.
release(p, connection) ==
    LET p1 == [p EXCEPT !.active = @ - 1, !.held = @ \ {connection}]
    IN  IF Len(p1.queue) > 0
        THEN LET w == Head(p1.queue)
             IN  [p1 EXCEPT !.queue  = Tail(@),
                            !.active = @ + 1,
                            !.held   = @ \cup {[call |-> w, id |-> p1.active + 1]},
                            !.served = Append(@, w)]
        ELSE p1

\* The step leads to the pool's state p; everything else stays.
PoolBecomes(p) ==
    /\ pool' = p
    /\ UNCHANGED <<stream, listeners, i, pc, hist, many, fixed, uploader, copy>>

\* new DatabasePool(maxConnections)
PoolNew ==
    /\ pc = "pool" /\ pool.max = 0
    /\ \E maxConnections \in 1..MaxPool :
         PoolBecomes([pool EXCEPT !.max = maxConnections])

\* A client calls pool.connect().
PoolConnect ==
    /\ pc = "pool" /\ pool.max > 0 /\ pool.calls < MaxConnects
    /\ PoolBecomes(connect(pool))

\* A client calls pool.release(connection) with a connection it holds.
PoolRelease ==
    /\ pc = "pool"
    /\ \E connection \in pool.held : PoolBecomes(release(pool, connection))

PoolInit ==
    /\ pc = "pool"
    /\ stream = NewStream(1)
    /\ listeners = [drain |-> <<>>, finish |-> FALSE]
    /\ i = 0
    /\ hist = NewHist
    /\ many = NewMany
    /\ fixed = NewFixed
    /\ uploader = NewUploader
    /\ pool = NewPool
    /\ copy = NewCopy

PoolNext == PoolNew \/ PoolConnect \/ PoolRelease

PoolSpec == PoolInit /\ [][PoolNext]_vars

\* The calls whose connection is held.
Holders(p) == {c.call : c \in p.held}

\* C34: with release called only for connections that are held,
\* activeConnections stays within 0..maxConnections and is the number of
\* connections held; calls wait only while the pool is full; a call that had
\* to wait gets its connection only in a release step, in which it was the
\* first in the queue; and the waiting calls are answered in the order they
\* were issued.
PoolWithinBounds ==
    /\ [](/\ pool.active >= 0 /\ pool.active <= pool.max
          /\ pool.active = Cardinality(pool.held)
          /\ Cardinality(Holders(pool)) = Cardinality(pool.held)
          /\ pool.queue # <<>> => pool.active = pool.max
          /\ pool.waited = pool.served \o pool.queue
          /\ \A c \in Holders(pool) : c \notin Range(pool.queue))
    /\ [][\A w \in Range(pool.queue) :
            w \in Holders(pool')
               => /\ w = Head(pool.queue)
                  /\ pool'.queue = Tail(pool.queue)
                  /\ \E connection \in pool.held :
                        connection \notin pool'.held]_vars

\* C34 witness: two calls had to wait; a release has answered the first and
\* the second still waits.
PoolWithinBoundsReached ==
    /\ Len(pool.waited) = 2 /\ Len(pool.served) = 1 /\ Len(pool.queue) = 1
    /\ pool.active = pool.max
    /\ pool.served[1] \in Holders(pool)

\* C35: no two connections held at the same time carry the same id.
PoolIdsUnique ==
    \A a, b \in pool.held : a.id = b.id => a = b

\* ===================================== 04_FileSystem/fs_call_methods.js
\* How a copy can end: done, or failed with an error.
Outcomes == {"ok", "ENOENT", "EACCES"}

\* The top-level code that runs copyFileSync first and starts the other two
\* copies behind it.
startCopiesSyncFirst(c) ==
    [c EXCEPT !.script  = "sync",
              !.sync    = "running",
              !.started = <<"sync">>]

\* Lines 4-26, up to the call of copyFileSync: the async function runs to its
\* await with the promise copy queued, copyFile queues the callback copy, and
\* copyFileSync begins.
startCopies(c) ==
    [c EXCEPT !.script   = "sync",
              !.promise  = "queued",
              !.callback = "queued",
              !.sync     = "running",
              !.started  = <<"promise", "callback", "sync">>]

\* One outcome message: console.log on success, console.error(error) else.
Message(who, outcome) == [who |-> who, outcome |-> outcome]

\* Lines 25-30: copyFileSync returns or throws; either way the outcome is
\* logged, and the top-level code ends.
syncReturns(c, outcome) ==
    [c EXCEPT !.script = "done",
              !.sync   = outcome,
              !.log    = Append(@, Message("sync", outcome))]

\* Has the copy logged its outcome?
Reported(c, who) == \E k \in 1..Len(c.log) : c.log[k].who = who

\* The step leads to the module's state c; everything else stays.
CopyBecomes(c) ==
    /\ copy' = c
    /\ UNCHANGED <<stream, listeners, i, pc, hist, many, fixed, uploader, pool>>

\* The module's top-level code runs up to the call of copyFileSync.
CopyStart ==
    /\ pc = "copy" /\ copy.script = "none"
    /\ CopyBecomes(startCopies(copy))

\* copyFileSync returns or throws.
CopySyncDone ==
    /\ copy.script = "sync" /\ ~copy.crashed
    /\ \E outcome \in Outcomes : CopyBecomes(syncReturns(copy, outcome))

\* The thread pool ends the promise copy or the callback copy, also while
\* copyFileSync is running.
CopyPoolDone ==
    /\ ~copy.crashed
    /\ \E outcome \in Outcomes :
         \/ /\ copy.promise = "queued"
            /\ CopyBecomes([copy EXCEPT !.promise = outcome])
         \/ /\ copy.callback = "queued"
            /\ CopyBecomes([copy EXCEPT !.callback = outcome])

\* Lines 6-10: the async function goes on behind its await, in the try or in
\* the catch, when no other JavaScript runs.
CopyPromiseReport ==
    /\ copy.script = "done" /\ ~copy.crashed
    /\ copy.promise \in Outcomes /\ ~Reported(copy, "promise")
    /\ CopyBecomes([copy EXCEPT
           !.log = Append(@, Message("promise", copy.promise))])

\* Lines 16-19: the callback of copyFile runs, when no other JavaScript runs.
CopyCallbackReport ==
    /\ copy.script = "done" /\ ~copy.crashed
    /\ copy.callback \in Outcomes /\ ~Reported(copy, "callback")
    /\ CopyBecomes([copy EXCEPT
           !.log = Append(@, Message("callback", copy.callback))])

CopyInit ==
    /\ pc = "copy"
    /\ stream = NewStream(1)
    /\ listeners = [drain |-> <<>>, finish |-> FALSE]
    /\ i = 0
    /\ hist = NewHist
    /\ many = NewMany
    /\ fixed = NewFixed
    /\ uploader = NewUploader
    /\ pool = NewPool
    /\ copy = NewCopy

CopyNext ==
    \/ CopyStart
    \/ CopySyncDone
    \/ CopyPoolDone
    \/ CopyPromiseReport
    \/ CopyCallbackReport

CopySpec == CopyInit /\ [][CopyNext]_vars

\* C36: in fs_call_methods.js all three copies are started before any of
\* them reports, the synchronous copy's message is the first one logged, and
\* an error in one copy is caught and logged without stopping the others:
\* the process never dies of it, every message tells the outcome of its own
\* copy, no copy reports twice, and whatever the synchronous copy's outcome
\* the other two are still carried out and reported (a step that ends or
\* reports one copy leaves the other copies' outcomes as they are).
CopiesAllAttempted ==
    /\ [](/\ ~copy.crashed
          /\ copy.log # <<>>
                => /\ Range(copy.started) = {"promise", "callback", "sync"}
                   /\ copy.log[1].who = "sync"
          /\ \A k \in 1..Len(copy.log) :
                /\ copy.log[k].outcome = copy[copy.log[k].who]
                /\ \A j \in 1..Len(copy.log) :
                      copy.log[j].who = copy.log[k].who => j = k
          /\ copy.script = "done" => Reported(copy, "sync"))
    /\ [][/\ copy.promise \in Outcomes => copy'.promise = copy.promise
          /\ copy.callback \in Outcomes => copy'.callback = copy.callback
          /\ copy.sync \in Outcomes => copy'.sync = copy.sync
          /\ IsPrefix(copy.log, copy'.log)]_vars

\* C36 witness: the synchronous copy and the promise copy have failed, the
\* promise copy while copyFileSync was still running, and all three have
\* reported, the callback copy (which went through) before the promise copy.
CopiesAllAttemptedReached ==
    /\ Len(copy.log) = 3
    /\ copy.sync = "ENOENT" /\ copy.promise = "EACCES" /\ copy.callback = "ok"
    /\ copy.log[2].who = "callback" /\ copy.log[3].who = "promise"
====
